---- MODULE Spec2Model ----
(***************************************************************************)
(* Model of the rule-based wash-trading detection engine                   *)
(* (advanced_token_rules.py, class WashTradingDetector).                   *)
(*                                                                         *)
(* A table (pandas DataFrame) is a record [columns, rows]: the set of      *)
(* column names and the sequence of rows.  Cells that hold text (wallet    *)
(* addresses, token mints) are strings, with NA for a missing value        *)
(* (pandas NaN/None) and "" for the empty string.  Numeric cells and       *)
(* transaction signatures are naturals, with NaN for a missing value.      *)
(* Block.Time is <<hour, minute>> in the caller's table and minutes since  *)
(* midnight after pd.to_datetime.                                          *)
(***************************************************************************)
EXTENDS Integers, Sequences, FiniteSets, TLC

VARIABLES
    table,                \* the caller's DataFrame
    constructed,          \* whether WashTradingDetector(table) has run
    df,                   \* self.df
    suspicious_patterns,  \* self.suspicious_patterns
    call,                 \* the last method called on the detector
    args,                 \* its arguments
    result,               \* what it returned
    raised,               \* whether it raised an exception
    first_report,         \* the outcome of the first get_summary_report
    file                  \* the file export_report writes

vars == <<table, constructed, df, suspicious_patterns, call, args, result, raised,
          first_report, file>>

----------------------------------------------------------------------------
(* Values *)

\* pandas missing value in a text column
NA == "NaN"
\* pandas missing value in a numeric column (what errors='coerce' produces)
NaN == -1
\* a numeric string that does not parse, in the caller's table
Malformed == -2

\* wallet addresses, in the order pandas sorts them (groupby)
Addresses == <<"", "A", "B", "C", "D", "E", "F">>

TradeColumns == {"Trade.Buy.Account.Address", "Trade.Sell.Account.Address",
                 "Trade.Buy.Currency.MintAddress", "Transaction.Signature",
                 "Trade.Buy.Amount", "Trade.Buy.PriceInUSD"}

EmptyTable == [columns |-> {}, rows |-> <<>>]

\* the value of a call that returned nothing (it raised, or no call was made)
NoResult == [none |-> TRUE]

PatternOrder == <<"self_trades", "repeated_pairs", "circular_trading",
                  "timing_patterns", "volume_concentration",
                  "price_manipulation", "new_wallet_patterns">>

----------------------------------------------------------------------------
(* Sequence helpers (list / Series operations used by the detectors) *)

Range(s) == {s[i] : i \in 1..Len(s)}

\* Series.unique(): distinct values in order of first appearance
RECURSIVE Unique(_)
Unique(s) ==
    IF s = <<>> THEN <<>>
    ELSE <<Head(s)>> \o Unique(SelectSeq(Tail(s), LAMBDA x : x # Head(s)))

\* Series.nunique(): number of distinct non-missing values
NUnique(s) == Cardinality(Range(s) \ {NA})

\* [f(x) for x in s]
RECURSIVE Concat(_)
Concat(ss) == IF ss = <<>> THEN <<>> ELSE Head(ss) \o Concat(Tail(ss))

\* Series.sum(): missing values are skipped
RECURSIVE Sum(_)
Sum(s) ==
    IF s = <<>> THEN 0
    ELSE (IF Head(s) = NaN THEN 0 ELSE Head(s)) + Sum(Tail(s))

\* Series.count(): number of non-missing values
Count(s) == Len(SelectSeq(s, LAMBDA x : x # NaN))

\* rows whose field f equals v
RowsWhere(rows, f, v) == SelectSeq(rows, LAMBDA r : r[f] = v)

\* one column of a sequence of rows
Col(rows, f) == [i \in 1..Len(rows) |-> rows[i][f]]

\* what a call that raised an exception yields
Raise == [exception |-> "KeyError"]

\* F applied to the value of v, with v evaluated once (a local variable)
With(v, F(_)) == CHOOSE r \in {F(x) : x \in {v}} : TRUE

\* a > b for the fractions a = <<numerator, denominator>>, denominators > 0
FracGT(a, b) == a[1] * b[2] > b[1] * a[2]

----------------------------------------------------------------------------
(* prepare_data *)

\* pd.to_datetime on a Block.Time value
to_datetime(t) == t[1] * 60 + t[2]

\* pd.to_numeric(..., errors='coerce')
to_numeric(v) == IF v = Malformed THEN NaN ELSE v

\* DataFrame.get(column, default) for one row
Get(t, r, column, default) ==
    IF column \in t.columns THEN r[column] ELSE default

\* one row after the column assignments of prepare_data
Normalize(t, r) ==
    [buyer         |-> Get(t, r, "Trade.Buy.Account.Address", ""),
     seller        |-> Get(t, r, "Trade.Sell.Account.Address", ""),
     token_mint    |-> Get(t, r, "Trade.Buy.Currency.MintAddress", ""),
     tx_signature  |-> Get(t, r, "Transaction.Signature", ""),
     buy_amount    |-> to_numeric(Get(t, r, "Trade.Buy.Amount", 0)),
     buy_price_usd |-> to_numeric(Get(t, r, "Trade.Buy.PriceInUSD", 0)),
     time          |-> IF "Block.Time" \in t.columns
                       THEN to_datetime(r["Block.Time"]) ELSE NaN]

\* DataFrame.dropna(subset=['buyer', 'seller', 'token_mint'])
dropna(rows) ==
    SelectSeq(rows, LAMBDA r : r.buyer # NA /\ r.seller # NA /\ r.token_mint # NA)

prepare_data(t) ==
    [columns |-> t.columns \cup {"buyer", "seller", "token_mint", "tx_signature",
                                 "buy_amount", "buy_price_usd"},
     rows    |-> dropna([i \in 1..Len(t.rows) |-> Normalize(t, t.rows[i])])]

----------------------------------------------------------------------------
(* detect_self_trades *)

detect_self_trades(d) ==
    LET self_trades == SelectSeq(d.rows, LAMBDA r : r.buyer = r.seller)
    IN [pattern      |-> "self_trades",
        count        |-> Len(self_trades),
        transactions |-> Col(self_trades, "tx_signature"),
        wallets      |-> Unique(Col(self_trades, "buyer")),
        tokens       |-> Unique(Col(self_trades, "token_mint")),
        severity     |-> IF Len(self_trades) > 0 THEN "HIGH" ELSE "LOW"]

----------------------------------------------------------------------------
(* detect_repeated_pairs *)

\* the (buyer, seller) keys in the order groupby sorts them
AllPairs ==
    LET n == Len(Addresses)
    IN [k \in 1..(n * n) |-> <<Addresses[((k - 1) \div n) + 1],
                               Addresses[((k - 1) % n) + 1]>>]

PairRows(rows, p) == SelectSeq(rows, LAMBDA r : r.buyer = p[1] /\ r.seller = p[2])

\* groupby(['buyer', 'seller']).agg(count, nunique, sum).reset_index()
PairTable(rows) ==
    LET keys == SelectSeq(AllPairs, LAMBDA p : PairRows(rows, p) # <<>>)
    IN [i \in 1..Len(keys) |->
          LET g == PairRows(rows, keys[i])
          IN [buyer        |-> keys[i][1],
              seller       |-> keys[i][2],
              trade_count  |-> Count(Col(g, "tx_signature")),
              token_count  |-> NUnique(Col(g, "token_mint")),
              total_volume |-> Sum(Col(g, "buy_amount"))]]

detect_repeated_pairs(d, threshold) ==
    LET pairs == PairTable(d.rows)
        repeated_pairs == SelectSeq(pairs, LAMBDA p : p.trade_count > threshold)
        suspicious_txs ==
            Concat([i \in 1..Len(repeated_pairs) |->
                      Col(PairRows(d.rows, <<repeated_pairs[i].buyer,
                                             repeated_pairs[i].seller>>),
                          "tx_signature")])
    IN [pattern      |-> "repeated_pairs",
        count        |-> Len(repeated_pairs),
        transactions |-> suspicious_txs,
        pairs        |-> repeated_pairs,
        severity     |-> IF Len(repeated_pairs) > 0 THEN "HIGH" ELSE "LOW"]

----------------------------------------------------------------------------
(* detect_circular_trading *)

\* WalletEntries with the entry under the seller left out
WalletEntries_mut(rows) ==
    Concat([i \in 1..Len(rows) |->
              << [wallet |-> rows[i].buyer, counterparty |-> rows[i].seller,
                  tx |-> rows[i].tx_signature] >>])

\* the entries appended to wallet_trades, in the order they are appended:
\* each row adds one entry under its buyer and one under its seller
\* (the token and time of an entry are never read and are left out)
WalletEntries(rows) ==
    Concat([i \in 1..Len(rows) |->
              << [wallet |-> rows[i].buyer, counterparty |-> rows[i].seller,
                  tx |-> rows[i].tx_signature],
                 [wallet |-> rows[i].seller, counterparty |-> rows[i].buyer,
                  tx |-> rows[i].tx_signature] >>])

\* wallet_trades[wallet]
WalletTrades(rows, wallet) == RowsWhere(WalletEntries(rows), "wallet", wallet)

\* the minimum number of occurrences of a counterparty (line 102)
MinOccurrences == 4

\* CirclesOf with "count > 4" for "count >= 4"
CirclesOf_mut(rows, wallet) ==
    LET trades == WalletTrades(rows, wallet)
        counterparties == Col(trades, "counterparty")
        keys == Unique(counterparties)
        count(c) == Len(SelectSeq(counterparties, LAMBDA x : x = c))
        flagged == SelectSeq(keys, LAMBDA c : count(c) > MinOccurrences)
    IN [i \in 1..Len(flagged) |->
          [wallet_a     |-> wallet,
           wallet_b     |-> flagged[i],
           round_trips  |-> count(flagged[i]) \div 2,
           transactions |-> Col(RowsWhere(trades, "counterparty", flagged[i]), "tx")]]

\* the circles one wallet contributes
CirclesOf(rows, wallet) ==
    LET trades == WalletTrades(rows, wallet)
        counterparties == Col(trades, "counterparty")
        keys == Unique(counterparties)
        count(c) == Len(SelectSeq(counterparties, LAMBDA x : x = c))
        flagged == SelectSeq(keys, LAMBDA c : count(c) >= MinOccurrences)
    IN [i \in 1..Len(flagged) |->
          [wallet_a     |-> wallet,
           wallet_b     |-> flagged[i],
           round_trips  |-> count(flagged[i]) \div 2,
           transactions |-> Col(RowsWhere(trades, "counterparty", flagged[i]), "tx")]]

detect_circular_trading(d) ==
    LET wallets == Unique(Col(WalletEntries(d.rows), "wallet"))
        circular_trades ==
            Concat([i \in 1..Len(wallets) |-> CirclesOf(d.rows, wallets[i])])
    IN [pattern      |-> "circular_trading",
        count        |-> Len(circular_trades),
        transactions |-> Concat(Col(circular_trades, "transactions")),
        circles      |-> circular_trades,
        severity     |-> IF Len(circular_trades) > 0 THEN "HIGH" ELSE "LOW"]

----------------------------------------------------------------------------
(* detect_timing_patterns *)

\* DataFrame.sort_values('Block.Time'); rows with equal times keep their order
RECURSIVE InsertByTime(_, _)
InsertByTime(r, s) ==
    IF s = <<>> THEN <<r>>
    ELSE IF Head(s).time <= r.time THEN <<Head(s)>> \o InsertByTime(r, Tail(s))
         ELSE <<r>> \o s

RECURSIVE SortByTime(_)
SortByTime(rows) ==
    IF rows = <<>> THEN <<>>
    ELSE InsertByTime(rows[Len(rows)], SortByTime(SubSeq(rows, 1, Len(rows) - 1)))

\* Series.diff() without its leading missing value
Diffs(s) == [i \in 1..(Len(s) - 1) |-> s[i + 1] - s[i]]

DefaultTimeThreshold == 5
MinTimingTrades == 5

\* the anomaly record of one token, or <<>> when the token is not flagged
TimingAnomaly(d, token, time_threshold_minutes) ==
    LET token_trades == SortByTime(RowsWhere(d.rows, "token_mint", token))
        time_diffs == Diffs(Col(token_trades, "time"))
        regular_intervals ==
            SelectSeq(time_diffs, LAMBDA x : x > 0 /\ x < time_threshold_minutes)
    IN IF Len(token_trades) < MinTimingTrades THEN <<>>
       ELSE IF 10 * Len(regular_intervals) > 3 * Len(token_trades)
            THEN << [token          |-> token,
                     regular_trades |-> Len(regular_intervals),
                     total_trades   |-> Len(token_trades),
                     avg_interval_minutes |->
                         <<Sum(regular_intervals), Len(regular_intervals)>>,
                     transactions   |-> Col(token_trades, "tx_signature")] >>
            ELSE <<>>

\* lines 123-155: the finding when the table has a Block.Time column
TimingFinding(d, time_threshold_minutes) ==
    LET tokens == Unique(Col(d.rows, "token_mint"))
        timing_anomalies ==
            Concat([i \in 1..Len(tokens) |->
                      TimingAnomaly(d, tokens[i], time_threshold_minutes)])
    IN [pattern      |-> "timing_patterns",
        count        |-> Len(timing_anomalies),
        transactions |-> Concat(Col(timing_anomalies, "transactions")),
        anomalies    |-> timing_anomalies,
        severity     |-> IF Len(timing_anomalies) > 0 THEN "MEDIUM" ELSE "LOW"]

\* the detector without its early return: sort_values('Block.Time') raises
detect_timing_patterns_mut(d, time_threshold_minutes) ==
    IF "Block.Time" \notin d.columns /\ d.rows # <<>> THEN Raise
    ELSE TimingFinding(d, time_threshold_minutes)

detect_timing_patterns(d, time_threshold_minutes) ==
    IF "Block.Time" \notin d.columns
    THEN [pattern |-> "timing_patterns", count |-> 0, severity |-> "LOW"]
    ELSE TimingFinding(d, time_threshold_minutes)

----------------------------------------------------------------------------
(* detect_volume_anomalies *)

MinVolumeTrades == 10
TopWallets == 3

\* groupby('buyer')['buy_amount'].sum(): one entry per buyer, buyers sorted
WalletVolume(rows) ==
    LET buyers == SelectSeq(Addresses, LAMBDA w : RowsWhere(rows, "buyer", w) # <<>>)
    IN [i \in 1..Len(buyers) |->
          [buyer  |-> buyers[i],
           volume |-> Sum(Col(RowsWhere(rows, "buyer", buyers[i]), "buy_amount"))]]

\* Series.nlargest(n): the n largest entries, largest first, ties in series order
RECURSIVE NLargest(_, _)
NLargest(n, s) ==
    IF n = 0 \/ s = <<>> THEN <<>>
    ELSE LET i == CHOOSE i \in 1..Len(s) :
                     /\ \A j \in 1..Len(s) : s[j].volume <= s[i].volume
                     /\ \A j \in 1..(i - 1) : s[j].volume < s[i].volume
         IN <<s[i]>> \o NLargest(n - 1, SubSeq(s, 1, i - 1) \o SubSeq(s, i + 1, Len(s)))

\* VolumeConcentration with "ratio >= threshold" for "ratio > threshold"
VolumeConcentration_mut(d, token, volume_threshold) ==
    LET token_trades == RowsWhere(d.rows, "token_mint", token)
        wallet_volume == WalletVolume(token_trades)
        total_volume == Sum(Col(wallet_volume, "volume"))
        top == NLargest(TopWallets, wallet_volume)
        top_wallets_volume == Sum(Col(top, "volume"))
        concentration_ratio == <<top_wallets_volume, total_volume>>
    IN IF Len(token_trades) < MinVolumeTrades THEN <<>>
       ELSE IF total_volume = 0 THEN <<>>
       ELSE IF ~FracGT(volume_threshold, concentration_ratio)
            THEN << [token               |-> token,
                     concentration_ratio |-> concentration_ratio,
                     top_wallets         |-> Col(top, "buyer"),
                     total_volume        |-> total_volume,
                     transactions        |-> Col(token_trades, "tx_signature")] >>
            ELSE <<>>

\* the concentration record of one token, or <<>> when the token is not flagged;
\* ratios are fractions <<numerator, denominator>>
VolumeConcentration(d, token, volume_threshold) ==
    LET token_trades == RowsWhere(d.rows, "token_mint", token)
        wallet_volume == WalletVolume(token_trades)
        total_volume == Sum(Col(wallet_volume, "volume"))
        top == NLargest(TopWallets, wallet_volume)
        top_wallets_volume == Sum(Col(top, "volume"))
        concentration_ratio == <<top_wallets_volume, total_volume>>
    IN IF Len(token_trades) < MinVolumeTrades THEN <<>>
       ELSE IF total_volume = 0 THEN <<>>
       ELSE IF FracGT(concentration_ratio, volume_threshold)
            THEN << [token               |-> token,
                     concentration_ratio |-> concentration_ratio,
                     top_wallets         |-> Col(top, "buyer"),
                     total_volume        |-> total_volume,
                     transactions        |-> Col(token_trades, "tx_signature")] >>
            ELSE <<>>

detect_volume_anomalies(d, volume_threshold) ==
    LET tokens == Unique(Col(d.rows, "token_mint"))
        volume_concentration ==
            Concat([i \in 1..Len(tokens) |->
                      VolumeConcentration(d, tokens[i], volume_threshold)])
    IN [pattern        |-> "volume_concentration",
        count          |-> Len(volume_concentration),
        transactions   |-> Concat(Col(volume_concentration, "transactions")),
        concentrations |-> volume_concentration,
        severity       |-> IF Len(volume_concentration) > 0 THEN "MEDIUM" ELSE "LOW"]

----------------------------------------------------------------------------
(* detect_price_manipulation *)

MinPriceTrades == 5

\* Series.pct_change().abs() without its leading missing value, as fractions
PctChanges(prices) ==
    [i \in 1..(Len(prices) - 1) |->
        <<IF prices[i + 1] >= prices[i] THEN prices[i + 1] - prices[i]
          ELSE prices[i] - prices[i + 1],
          prices[i]>>]

\* Series.max() of a non-empty sequence of fractions
FracMax(s) ==
    s[CHOOSE i \in 1..Len(s) : \A j \in 1..Len(s) : ~FracGT(s[j], s[i])]

\* the anomaly record of one token, or <<>> when the token is not flagged
\* (avg_change, a float mean that nothing reads, is left out)
PriceAnomaly(d, token, price_deviation_threshold) ==
    LET token_trades ==
            SortByTime(SelectSeq(d.rows, LAMBDA r : /\ r.token_mint = token
                                                    /\ r.buy_price_usd > 0))
        price_changes == PctChanges(Col(token_trades, "buy_price_usd"))
        extreme_changes ==
            SelectSeq(price_changes, LAMBDA c : FracGT(c, price_deviation_threshold))
    IN IF Len(token_trades) < MinPriceTrades THEN <<>>
       ELSE IF 5 * Len(extreme_changes) > Len(token_trades)
            THEN << [token           |-> token,
                     extreme_changes |-> Len(extreme_changes),
                     max_change      |-> FracMax(extreme_changes),
                     transactions    |-> Col(token_trades, "tx_signature")] >>
            ELSE <<>>

\* sort_values('Block.Time') raises KeyError on a table without that column,
\* as soon as the loop over the tokens runs once
detect_price_manipulation(d, price_deviation_threshold) ==
    LET tokens == Unique(Col(d.rows, "token_mint"))
        price_anomalies ==
            Concat([i \in 1..Len(tokens) |->
                      PriceAnomaly(d, tokens[i], price_deviation_threshold)])
    IN IF tokens # <<>> /\ "Block.Time" \notin d.columns THEN Raise
       ELSE [pattern      |-> "price_manipulation",
             count        |-> Len(price_anomalies),
             transactions |-> Concat(Col(price_anomalies, "transactions")),
             anomalies    |-> price_anomalies,
             severity     |-> IF Len(price_anomalies) > 0 THEN "HIGH" ELSE "LOW"]

----------------------------------------------------------------------------
(* detect_new_wallet_patterns *)

MaxNewWalletTrades == 10
MaxNewWalletTokens == 2
NewWalletMedium == 5

SeqMin(s) == CHOOSE x \in Range(s) : \A y \in Range(s) : x <= y
SeqMax(s) == CHOOSE x \in Range(s) : \A y \in Range(s) : x >= y

\* groupby('buyer').agg(count, nunique, min/max).reset_index()
WalletActivity(rows) ==
    LET buyers == SelectSeq(Addresses, LAMBDA w : RowsWhere(rows, "buyer", w) # <<>>)
    IN [i \in 1..Len(buyers) |->
          LET g == RowsWhere(rows, "buyer", buyers[i])
          IN [wallet      |-> buyers[i],
              trade_count |-> Count(Col(g, "tx_signature")),
              token_count |-> NUnique(Col(g, "token_mint")),
              first_trade |-> SeqMin(Col(g, "time")),
              last_trade  |-> SeqMax(Col(g, "time"))]]

\* without a Block.Time column the aggregation names a column that does not
\* exist and raises KeyError, whatever the rows are
detect_new_wallet_patterns(d) ==
    IF "Block.Time" \notin d.columns THEN Raise
    ELSE
    LET wallet_activity == WalletActivity(d.rows)
        suspicious_new_wallets ==
            SelectSeq(wallet_activity, LAMBDA w : /\ w.trade_count <= MaxNewWalletTrades
                                                  /\ w.token_count <= MaxNewWalletTokens)
        suspicious_txs ==
            Concat([i \in 1..Len(suspicious_new_wallets) |->
                      Col(RowsWhere(d.rows, "buyer", suspicious_new_wallets[i].wallet),
                          "tx_signature")])
    IN IF Len(suspicious_new_wallets) = 0
       THEN [pattern |-> "new_wallet_patterns", count |-> 0, severity |-> "LOW"]
       ELSE [pattern      |-> "new_wallet_patterns",
             count        |-> Len(suspicious_new_wallets),
             transactions |-> suspicious_txs,
             wallets      |-> Col(suspicious_new_wallets, "wallet"),
             severity     |-> IF Len(suspicious_new_wallets) > NewWalletMedium
                              THEN "MEDIUM" ELSE "LOW"]

----------------------------------------------------------------------------
(* analyze_all_patterns, get_summary_report, export_report *)

DefaultPairThreshold == 5
\* the default thresholds 0.8 and 0.5, as fractions
DefaultVolumeThreshold == <<4, 5>>
DefaultPriceThreshold == <<1, 2>>

\* the i-th detector call of analyze_all_patterns
Detector(i, d) ==
    CASE i = 1 -> detect_self_trades(d)
      [] i = 2 -> detect_repeated_pairs(d, DefaultPairThreshold)
      [] i = 3 -> detect_circular_trading(d)
      [] i = 4 -> detect_timing_patterns(d, DefaultTimeThreshold)
      [] i = 5 -> detect_volume_anomalies(d, DefaultVolumeThreshold)
      [] i = 6 -> detect_price_manipulation(d, DefaultPriceThreshold)
      [] i = 7 -> detect_new_wallet_patterns(d)

\* the assignments of lines 271-277 from the i-th on: a detector that raises
\* ends the method, and the findings assigned before it stay in the dict
RECURSIVE RunDetectors(_, _, _)
RunDetectors(d, sp, i) ==
    IF i > Len(PatternOrder) THEN [patterns |-> sp, raised |-> FALSE]
    ELSE With(Detector(i, d),
              LAMBDA finding :
                 IF finding = Raise THEN [patterns |-> sp, raised |-> TRUE]
                 ELSE RunDetectors(d, (PatternOrder[i] :> finding) @@ sp, i + 1))

analyze_all_patterns(d, sp) == RunDetectors(d, sp, 1)

HighWeight == 3
MediumWeight == 1
HighRisk == 6
MediumRisk == 3

\* list(a_set)[:n]; the order of the list is not modelled
Truncate(S, n) ==
    IF Cardinality(S) <= n THEN S ELSE CHOOSE T \in SUBSET S : Cardinality(T) = n

\* the union of the lists that the findings hold under key
Collect(sp, key) ==
    UNION {Range(sp[n][key]) : n \in {m \in DOMAIN sp : key \in DOMAIN sp[m]}}

\* RiskScore without the MEDIUM findings
RiskScore_mut(high, medium) == Len(high) * HighWeight

RiskScore(high, medium) == Len(high) * HighWeight + Len(medium) * MediumWeight

RiskLevel(risk_score) ==
    IF risk_score >= HighRisk THEN "HIGH"
    ELSE IF risk_score >= MediumRisk THEN "MEDIUM" ELSE "LOW"

\* lines 286-324: the report over the findings of sp
Summary(d, sp) ==
    LET names == SelectSeq(PatternOrder, LAMBDA n : n \in DOMAIN sp)
        high_severity_patterns == SelectSeq(names, LAMBDA n : sp[n].severity = "HIGH")
        medium_severity_patterns ==
            SelectSeq(names, LAMBDA n : sp[n].severity = "MEDIUM")
        all_suspicious_txs == Collect(sp, "transactions")
        all_suspicious_wallets == Collect(sp, "wallets")
        all_suspicious_tokens == Collect(sp, "tokens")
        risk_score == RiskScore(high_severity_patterns, medium_severity_patterns)
    IN [total_trades_analyzed    |-> Len(d.rows),
        suspicious_transactions  |-> Cardinality(all_suspicious_txs),
        suspicious_wallets       |-> Cardinality(all_suspicious_wallets),
        suspicious_tokens        |-> Cardinality(all_suspicious_tokens),
        high_severity_patterns   |-> high_severity_patterns,
        medium_severity_patterns |-> medium_severity_patterns,
        risk_score               |-> risk_score,
        risk_level               |-> RiskLevel(risk_score),
        suspicious_tx_list       |-> Truncate(all_suspicious_txs, 20),
        suspicious_wallet_list   |-> Truncate(all_suspicious_wallets, 10),
        suspicious_token_list    |-> Truncate(all_suspicious_tokens, 5),
        detailed_patterns        |-> sp]

\* the dict after the call, whether the call raised, and the value returned
get_summary_report(d, sp) ==
    With(IF DOMAIN sp = {} THEN analyze_all_patterns(d, sp)
         ELSE [patterns |-> sp, raised |-> FALSE],
         LAMBDA run :
            [patterns |-> run.patterns,
             raised   |-> run.raised,
             value    |-> IF run.raised THEN Raise ELSE Summary(d, run.patterns)])

----------------------------------------------------------------------------
(* The caller's table *)

AllColumns == TradeColumns \cup {"Block.Time"}

\* one record of the caller's table, without its signature
Trade(buyer, seller, mint, amount, price) ==
    [c \in TradeColumns \ {"Transaction.Signature"} |->
        CASE c = "Trade.Buy.Account.Address" -> buyer
          [] c = "Trade.Sell.Account.Address" -> seller
          [] c = "Trade.Buy.Currency.MintAddress" -> mint
          [] c = "Trade.Buy.Amount" -> amount
          [] c = "Trade.Buy.PriceInUSD" -> price]

\* Block.Time of the last row in minutes (0 for an empty table)
LastMinute(t) ==
    IF t.rows = <<>> \/ "Block.Time" \notin t.columns THEN 0
    ELSE to_datetime(t.rows[Len(t.rows)]["Block.Time"])

\* the row that an input adds to table t whose columns are cols: the
\* signature is the row's ordinal number, or missing; Block.Time is delta
\* minutes after the last row's
NewRow(t, cols, inp) ==
    LET minute == LastMinute(t) + inp.delta
    IN [c \in cols |->
          IF c = "Transaction.Signature"
          THEN (IF inp.nosig THEN NaN ELSE Len(t.rows) + 1)
          ELSE IF c = "Block.Time" THEN <<minute \div 60, minute % 60>>
          ELSE IF c \in DOMAIN inp.trade THEN inp.trade[c]
          ELSE NA]

\* an input of the model: a record, the minutes since the previous record,
\* and whether the record lacks its Transaction.Signature
Input(trade, delta, nosig) == [trade |-> trade, delta |-> delta, nosig |-> nosig]

----------------------------------------------------------------------------
(* Actions *)

Init ==
    /\ table = EmptyTable
    /\ constructed = FALSE
    /\ df = EmptyTable
    /\ suspicious_patterns = <<>>
    /\ call = "none"
    /\ args = <<>>
    /\ result = NoResult
    /\ raised = FALSE
    /\ first_report = NoResult
    /\ file = NoResult

\* the caller's table gets one more record (pd.json_normalize of the trade
\* list); the first record fixes the columns of the table
AddTrade(inp, colsets, max) ==
    /\ ~constructed
    /\ Len(table.rows) < max
    /\ \E cols \in (IF table.rows = <<>> THEN colsets ELSE {table.columns}) :
          table' = [columns |-> cols,
                    rows    |-> Append(table.rows, NewRow(table, cols, inp))]
    /\ UNCHANGED <<constructed, df, suspicious_patterns, call, args, result, raised,
                   first_report, file>>

\* the index in inputs of the input that added the last row of the table
LastInput(inputs) ==
    IF table.rows = <<>> THEN 1
    ELSE LET before == [table EXCEPT !.rows = SubSeq(table.rows, 1, Len(table.rows) - 1)]
         IN CHOOSE j \in 1..Len(inputs) :
                NewRow(before, table.columns, inputs[j]) = table.rows[Len(table.rows)]

\* AddTrade for tables whose records come in the order of inputs
AddTradeInOrder(inputs, i, colsets, max) ==
    /\ i >= LastInput(inputs)
    /\ AddTrade(inputs[i], colsets, max)

\* WashTradingDetector(table)
Construct ==
    /\ ~constructed
    /\ constructed' = TRUE
    /\ df' = prepare_data(table)
    /\ suspicious_patterns' = <<>>
    /\ UNCHANGED <<table, call, args, result, raised, first_report, file>>

AnalyzeAllPatterns ==
    /\ constructed
    /\ \E run \in {analyze_all_patterns(df, suspicious_patterns)} :
          /\ suspicious_patterns' = run.patterns
          /\ raised' = run.raised
          /\ result' = IF run.raised THEN Raise ELSE run.patterns
    /\ call' = "analyze_all_patterns"
    /\ args' = <<>>
    /\ UNCHANGED <<table, constructed, df, first_report, file>>

GetSummaryReport ==
    /\ constructed
    /\ \E run \in {get_summary_report(df, suspicious_patterns)} :
          /\ suspicious_patterns' = run.patterns
          /\ raised' = run.raised
          /\ result' = run.value
          /\ first_report' = IF first_report = NoResult THEN run.value ELSE first_report
    /\ call' = "get_summary_report"
    /\ args' = <<>>
    /\ UNCHANGED <<table, constructed, df, file>>

\* export_report: the report is written unless get_summary_report raised
ExportReport ==
    /\ constructed
    /\ \E run \in {get_summary_report(df, suspicious_patterns)} :
          /\ suspicious_patterns' = run.patterns
          /\ raised' = run.raised
          /\ result' = run.value
          /\ first_report' = IF first_report = NoResult THEN run.value ELSE first_report
          /\ file' = IF run.raised THEN file ELSE [json |-> run.value]
    /\ call' = "export_report"
    /\ args' = <<>>
    /\ UNCHANGED <<table, constructed, df>>

\* a direct call of one detector
Called(name, arguments, value) ==
    /\ constructed
    /\ call' = name
    /\ args' = arguments
    /\ result' = value
    /\ raised' = (value = Raise)
    /\ UNCHANGED <<table, constructed, df, suspicious_patterns, first_report, file>>

DetectSelfTrades == Called("detect_self_trades", <<>>, detect_self_trades(df))

DetectRepeatedPairs(threshold) ==
    Called("detect_repeated_pairs", <<threshold>>, detect_repeated_pairs(df, threshold))

DetectCircularTrading ==
    Called("detect_circular_trading", <<>>, detect_circular_trading(df))

DetectTimingPatterns(time_threshold_minutes) ==
    Called("detect_timing_patterns", <<time_threshold_minutes>>,
           detect_timing_patterns(df, time_threshold_minutes))

DetectVolumeAnomalies(volume_threshold) ==
    Called("detect_volume_anomalies", <<volume_threshold>>,
           detect_volume_anomalies(df, volume_threshold))

----------------------------------------------------------------------------
(* The pipeline on small tables of every kind of record *)

MaxTrades == 3

PipelineInputs ==
    { Input(Trade("A", "B", "T1", 100, 1), 1, FALSE),
      Input(Trade("A", "A", "T1", 100, 1), 1, FALSE),
      Input(Trade("", "", "T1", 100, 1), 1, FALSE),
      Input(Trade(NA, "B", "T1", 100, 1), 1, FALSE),
      Input(Trade("B", "A", "T2", Malformed, 1), 1, FALSE),
      Input(Trade("B", "B", "T2", 100, Malformed), 1, FALSE),
      Input(Trade("A", "B", NA, 100, 1), 1, TRUE) }

\* the columns a table can have: all of them, all but Block.Time, and
\* neither Block.Time nor the two address columns
PipelineColumns ==
    { AllColumns,
      TradeColumns,
      TradeColumns \ {"Trade.Buy.Account.Address", "Trade.Sell.Account.Address"} }

NextAddTrade == \E inp \in PipelineInputs : AddTrade(inp, PipelineColumns, MaxTrades)

Next ==
    \/ NextAddTrade
    \/ Construct
    \/ AnalyzeAllPatterns
    \/ GetSummaryReport
    \/ ExportReport

Spec == Init /\ [][Next]_vars

----------------------------------------------------------------------------
(* Direct calls of detect_self_trades and detect_timing_patterns *)

TimeThresholds == {1, DefaultTimeThreshold}

NextDetectors ==
    \/ NextAddTrade
    \/ Construct
    \/ DetectSelfTrades
    \/ \E time_threshold_minutes \in TimeThresholds :
          DetectTimingPatterns(time_threshold_minutes)

SpecDetectors == Init /\ [][NextDetectors]_vars

----------------------------------------------------------------------------
(* Claims on the pipeline and on the two detectors above *)

ZeroCounts(report) ==
    /\ report.total_trades_analyzed = 0
    /\ report.suspicious_transactions = 0
    /\ report.suspicious_wallets = 0
    /\ report.suspicious_tokens = 0
    /\ DOMAIN report.detailed_patterns = Range(PatternOrder)
    /\ \A n \in DOMAIN report.detailed_patterns : report.detailed_patterns[n].count = 0

\* C2: for an empty trade table, get_summary_report raises no exception and
\* returns a report whose counts are all 0 and whose risk_level is LOW.
C2_EmptyTableReport ==
    (constructed /\ table.rows = <<>> /\ call = "get_summary_report")
        => /\ ~raised
           /\ ZeroCounts(result)
           /\ result.risk_level = "LOW"

\* C3: on one detector object every get_summary_report returns what the first
\* one returned, and the cached suspicious_patterns is what a fresh run of
\* the seven detectors on the table produces.
C3_SameReport ==
    /\ call = "get_summary_report" => result = first_report
    /\ suspicious_patterns # <<>> =>
          \E fresh \in {analyze_all_patterns(df, <<>>)} :
              ~fresh.raised /\ suspicious_patterns = fresh.patterns

\* C10: after prepare_data every row has a non-empty buyer, seller and token
\* id, and a record is dropped only for a missing or empty buyer, seller or
\* token, never for a malformed price or amount.
C10_NormalizedRows ==
    constructed =>
        /\ \A i \in 1..Len(df.rows) :
              /\ df.rows[i].buyer \notin {"", NA}
              /\ df.rows[i].seller \notin {"", NA}
              /\ df.rows[i].token_mint \notin {"", NA}
        /\ Len(df.rows) =
              Len(SelectSeq(table.rows, LAMBDA r :
                    /\ Get(table, r, "Trade.Buy.Account.Address", "") \notin {"", NA}
                    /\ Get(table, r, "Trade.Sell.Account.Address", "") \notin {"", NA}
                    /\ Get(table, r, "Trade.Buy.Currency.MintAddress", "") \notin {"", NA}))

\* the finding C4 describes: the trades with buyer == seller and a non-empty seller
SelfTradesClaimed(d) ==
    With(SelectSeq(d.rows, LAMBDA r : r.buyer = r.seller /\ r.seller # ""),
         LAMBDA flagged :
            [pattern      |-> "self_trades",
             count        |-> Len(flagged),
             transactions |-> Col(flagged, "tx_signature"),
             wallets      |-> Unique(Col(flagged, "buyer")),
             tokens       |-> Unique(Col(flagged, "token_mint")),
             severity     |-> IF Len(flagged) > 0 THEN "HIGH" ELSE "LOW"])

\* C4: detect_self_trades flags exactly the trades with buyer == seller and a
\* non-empty seller; a trade whose buyer and seller are both "" is not flagged.
C4_SelfTrades ==
    call = "detect_self_trades" => result = SelfTradesClaimed(df)

\* C7: without a Block.Time column detect_timing_patterns returns count 0 and
\* severity LOW and does not raise, whatever the rows are.
C7_TimingWithoutTimestamps ==
    (call = "detect_timing_patterns" /\ "Block.Time" \notin df.columns)
        => /\ ~raised
           /\ result = [pattern |-> "timing_patterns", count |-> 0, severity |-> "LOW"]

C7_Witness ==
    /\ call = "detect_timing_patterns"
    /\ "Block.Time" \notin df.columns
    /\ df.rows # <<>>
    /\ ~raised
    /\ result.count = 0

----------------------------------------------------------------------------
(* The report on tables large enough for every severity *)

MaxRiskTrades == 6

\* records in the order they are added; Block.Time grows by 1 or 10 minutes
RiskInputs ==
    << Input(Trade("A", "B", "T1", 100, 1), 1, FALSE),
       Input(Trade("A", "B", "T1", 100, 3), 1, FALSE),
       Input(Trade("A", "A", "T1", 100, 1), 1, FALSE),
       Input(Trade("B", "A", "T1", 100, 1), 10, FALSE),
       Input(Trade("C", "D", "T1", 100, 1), 1, FALSE),
       Input(Trade("E", "F", "T2", 100, 1), 10, FALSE) >>

RiskAddTrade ==
    \E i \in 1..Len(RiskInputs) :
        AddTradeInOrder(RiskInputs, i, {AllColumns, TradeColumns}, MaxRiskTrades)

NextRisk ==
    \/ RiskAddTrade
    \/ Construct
    \/ GetSummaryReport

SpecRisk == Init /\ [][NextRisk]_vars

\* the findings of a report with a given severity
WithSeverity(report, severity) ==
    {n \in DOMAIN report.detailed_patterns :
        report.detailed_patterns[n].severity = severity}

\* C1: risk_score is 3 per HIGH finding plus 1 per MEDIUM finding, LOW
\* findings add nothing, risk_score >= 0, and risk_level is HIGH from 6,
\* MEDIUM from 3 and LOW below.
C1_RiskScore ==
    (call = "get_summary_report" /\ ~raised) =>
        /\ result.risk_score = 3 * Cardinality(WithSeverity(result, "HIGH"))
                               + Cardinality(WithSeverity(result, "MEDIUM"))
        /\ result.risk_score >= 0
        /\ result.risk_level = IF result.risk_score >= 6 THEN "HIGH"
                               ELSE IF result.risk_score >= 3 THEN "MEDIUM"
                               ELSE "LOW"

C1_Witness ==
    /\ call = "get_summary_report"
    /\ ~raised
    /\ WithSeverity(result, "HIGH") # {}
    /\ WithSeverity(result, "MEDIUM") # {}
    /\ WithSeverity(result, "LOW") # {}
    /\ result.risk_score = 4
    /\ result.risk_level = "MEDIUM"

\* the records a finding holds under key
Details(finding, key) ==
    IF key \in DOMAIN finding THEN Range(finding[key]) ELSE {}

\* every wallet, token and tx id that the findings of sp reference
ReferencedWallets(sp) ==
    UNION {Details(sp[n], "wallets")
           \cup {p.buyer : p \in Details(sp[n], "pairs")}
           \cup {p.seller : p \in Details(sp[n], "pairs")}
           \cup {c.wallet_a : c \in Details(sp[n], "circles")}
           \cup {c.wallet_b : c \in Details(sp[n], "circles")}
           \cup UNION {Range(c.top_wallets) : c \in Details(sp[n], "concentrations")}
           : n \in DOMAIN sp}

ReferencedTokens(sp) ==
    UNION {Details(sp[n], "tokens")
           \cup {a.token : a \in Details(sp[n], "anomalies")}
           \cup {c.token : c \in Details(sp[n], "concentrations")}
           : n \in DOMAIN sp}

ReferencedTxs(sp) == UNION {Details(sp[n], "transactions") : n \in DOMAIN sp}

\* C9: suspicious_transactions, suspicious_wallets and suspicious_tokens count,
\* each once, every tx id, wallet and token that any finding references.
C9_AggregateUnions ==
    (call = "get_summary_report" /\ ~raised) =>
        /\ result.suspicious_transactions =
              Cardinality(ReferencedTxs(result.detailed_patterns))
        /\ result.suspicious_wallets =
              Cardinality(ReferencedWallets(result.detailed_patterns))
        /\ result.suspicious_tokens =
              Cardinality(ReferencedTokens(result.detailed_patterns))

----------------------------------------------------------------------------
(* detect_repeated_pairs on tables of up to MaxPairTrades trades *)

MaxPairTrades == 6

PairInputs ==
    << Input(Trade("A", "B", "T1", 100, 1), 1, FALSE),
       Input(Trade("A", "B", "T2", 100, 1), 1, TRUE),
       Input(Trade("B", "A", "T1", 100, 1), 1, FALSE),
       Input(Trade("A", "C", "T1", 100, 1), 1, FALSE) >>

PairThresholds == {2, DefaultPairThreshold}

PairAddTrade ==
    \E i \in 1..Len(PairInputs) :
        AddTradeInOrder(PairInputs, i, {AllColumns, TradeColumns}, MaxPairTrades)

NextPairs ==
    \/ PairAddTrade
    \/ Construct
    \/ \E threshold \in PairThresholds : DetectRepeatedPairs(threshold)

SpecPairs == Init /\ [][NextPairs]_vars

\* the trades of d with the given buyer and seller
TradesOf(d, buyer, seller) ==
    {i \in 1..Len(d.rows) : d.rows[i].buyer = buyer /\ d.rows[i].seller = seller}

\* the lists s and t hold the same elements the same number of times
SameElements(s, t) ==
    \A x \in Range(s) \cup Range(t) :
        Len(SelectSeq(s, LAMBDA y : y = x)) = Len(SelectSeq(t, LAMBDA y : y = x))

\* C5: detect_repeated_pairs(threshold) flags an ordered (buyer, seller) pair
\* iff more than threshold trades have that buyer and that seller; (A, B) and
\* (B, A) are counted separately; transactions is the tx ids of the trades of
\* the flagged pairs; severity is HIGH iff a pair is flagged.
C5_RepeatedPairs ==
    call = "detect_repeated_pairs" =>
        \E flagged \in {{p \in Range(AllPairs) :
                           Cardinality(TradesOf(df, p[1], p[2])) > args[1]}} :
            /\ {<<p.buyer, p.seller>> : p \in Range(result.pairs)} = flagged
            /\ result.count = Cardinality(flagged)
            /\ SameElements(result.transactions,
                  Col(SelectSeq(df.rows, LAMBDA r : <<r.buyer, r.seller>> \in flagged),
                      "tx_signature"))
            /\ result.severity = IF flagged # {} THEN "HIGH" ELSE "LOW"

----------------------------------------------------------------------------
(* detect_circular_trading on tables of up to MaxCircleTrades trades *)

MaxCircleTrades == 6

CircleInputs ==
    << Input(Trade("A", "B", "T1", 100, 1), 1, FALSE),
       Input(Trade("B", "A", "T1", 100, 1), 1, FALSE),
       Input(Trade("A", "A", "T1", 100, 1), 1, FALSE),
       Input(Trade("B", "C", "T2", 100, 1), 1, FALSE),
       Input(Trade("", "", "T1", 100, 1), 1, TRUE) >>

CircleAddTrade ==
    \E i \in 1..Len(CircleInputs) :
        AddTradeInOrder(CircleInputs, i, {AllColumns, TradeColumns}, MaxCircleTrades)

NextCircles ==
    \/ CircleAddTrade
    \/ Construct
    \/ DetectCircularTrading

SpecCircles == Init /\ [][NextCircles]_vars

\* the number of trades of d in which a and b are the two counterparties
TradesBetween(d, a, b) ==
    Cardinality(TradesOf(d, a, b) \cup TradesOf(d, b, a))

\* the circles of a finding as (wallet_a, wallet_b, round_trips) triples
Triples(finding) ==
    {<<c.wallet_a, c.wallet_b, c.round_trips>> : c \in Range(finding.circles)}

\* C6 as stated: a circle is reported for wallet_a and wallet_b iff at least 4
\* trades have the two wallets as counterparties, and round_trips is that
\* number of trades integer-divided by 2.
C6_CirclesByTradeCount ==
    call = "detect_circular_trading" =>
        Triples(result) =
            {<<p[1], p[2], TradesBetween(df, p[1], p[2]) \div 2>> :
                p \in {q \in Range(AllPairs) : TradesBetween(df, q[1], q[2]) >= 4}}

\* C6 amended: for two distinct wallets the circle is reported iff at least 4
\* trades have them as counterparties, with round_trips that number
\* integer-divided by 2; a self-trade counts twice for its wallet, so a circle
\* with wallet_a == wallet_b is reported iff the wallet has at least 2
\* self-trades, with round_trips the number of its self-trades.
C6_Circles ==
    call = "detect_circular_trading" =>
        /\ Triples(result) =
              {<<p[1], p[2], TradesBetween(df, p[1], p[2]) \div 2>> :
                  p \in {q \in Range(AllPairs) :
                            q[1] # q[2] /\ TradesBetween(df, q[1], q[2]) >= 4}}
              \cup
              {<<p[1], p[1], TradesBetween(df, p[1], p[1])>> :
                  p \in {q \in Range(AllPairs) :
                            q[1] = q[2] /\ TradesBetween(df, q[1], q[1]) >= 2}}
        /\ Cardinality(Triples(result)) = result.count

\* four trades between A and B in both role combinations give round_trips 2
C6_Witness ==
    /\ call = "detect_circular_trading"
    /\ Cardinality(TradesOf(df, "A", "B")) = 2
    /\ Cardinality(TradesOf(df, "B", "A")) = 2
    /\ <<"A", "B", 2>> \in Triples(result)

----------------------------------------------------------------------------
(* detect_volume_anomalies on tables of up to MaxVolumeTrades trades *)

MaxVolumeTrades == 10

VolumeInputs ==
    << Input(Trade("A", "B", "T1", 0, 1), 1, FALSE),
       Input(Trade("A", "B", "T1", 400, 1), 1, FALSE),
       Input(Trade("B", "A", "T1", 100, 1), 1, FALSE),
       Input(Trade("C", "A", "T1", 100, 1), 1, FALSE),
       Input(Trade("D", "A", "T1", 100, 1), 1, FALSE),
       Input(Trade("D", "A", "T1", Malformed, 1), 1, FALSE),
       Input(Trade("A", "B", "T2", 100, 1), 1, FALSE) >>

\* the thresholds 0.8 (the default) and 0.9
VolumeThresholds == {DefaultVolumeThreshold, <<9, 10>>}

VolumeAddTrade ==
    \E i \in 1..Len(VolumeInputs) :
        AddTradeInOrder(VolumeInputs, i, {AllColumns}, MaxVolumeTrades)

NextVolume ==
    \/ VolumeAddTrade
    \/ Construct
    \/ \E volume_threshold \in VolumeThresholds : DetectVolumeAnomalies(volume_threshold)

SpecVolume == Init /\ [][NextVolume]_vars

\* the trades of a token, and the summed buy_amount of a set of them
TokenTrades(d, token) == {i \in 1..Len(d.rows) : d.rows[i].token_mint = token}

RECURSIVE Volume(_, _)
Volume(d, trades) ==
    IF trades = {} THEN 0
    ELSE LET i == CHOOSE i \in trades : TRUE
         IN (IF d.rows[i].buy_amount = NaN THEN 0 ELSE d.rows[i].buy_amount)
            + Volume(d, trades \ {i})

\* the summed buy_amount of the three buyers of a token with the largest sums
Top3Volume(d, token) ==
    LET buyers == {d.rows[i].buyer : i \in TokenTrades(d, token)}
        sums == {Volume(d, {i \in TokenTrades(d, token) : d.rows[i].buyer \in B}) :
                    B \in {C \in SUBSET buyers : Cardinality(C) <= 3}}
    IN CHOOSE m \in sums : \A n \in sums : n <= m

\* C8: detect_volume_anomalies(volume_threshold) flags a token iff it has at
\* least 10 trades, a total buy_amount that is not zero, and a share of its three
\* largest buyers strictly above volume_threshold; no ratio has a zero denominator.
C8_VolumeConcentration ==
    call = "detect_volume_anomalies" =>
        /\ {c.token : c \in Range(result.concentrations)} =
              {t \in Range(Col(df.rows, "token_mint")) :
                  /\ Cardinality(TokenTrades(df, t)) >= 10
                  /\ Volume(df, TokenTrades(df, t)) # 0
                  /\ Top3Volume(df, t) * args[1][2]
                        > args[1][1] * Volume(df, TokenTrades(df, t))}
        /\ result.count = Cardinality({c.token : c \in Range(result.concentrations)})
        /\ \A c \in Range(result.concentrations) :
              /\ c.concentration_ratio[2] # 0
              /\ c.concentration_ratio =
                    <<Top3Volume(df, c.token), Volume(df, TokenTrades(df, c.token))>>

\* ten trades of a token whose three largest buyers hold 900 of 1000
C8_Witness ==
    /\ call = "detect_volume_anomalies"
    /\ args = <<DefaultVolumeThreshold>>
    /\ \E c \in Range(result.concentrations) :
          /\ c.concentration_ratio = <<900, 1000>>
          /\ Cardinality(TokenTrades(df, c.token)) = 10
          /\ Len(c.top_wallets) = 3

----------------------------------------------------------------------------
(* analyze_all_patterns when a detector raises *)

\* C11: after analyze_all_patterns, every detector that does not raise on the
\* table has its finding recorded in suspicious_patterns, whatever another
\* detector did, and the call has returned (it did not raise).
C11_DetectorFailuresAreLocal ==
    call = "analyze_all_patterns" =>
        /\ \A i \in 1..Len(PatternOrder) :
              \E finding \in {Detector(i, df)} :
                  finding # Raise =>
                      /\ PatternOrder[i] \in DOMAIN suspicious_patterns
                      /\ suspicious_patterns[PatternOrder[i]] = finding
        /\ ~raised

----------------------------------------------------------------------------
(* The label variant (token_rules.py): detectors that take the table *)

BuyAddress == "Trade.Buy.Account.Address"
SellAddress == "Trade.Sell.Account.Address"
BuyPrice == "Trade.Buy.PriceInUSD"
SellPrice == "Trade.Sell.PriceInUSD"

\* what a call that raised a TypeError yields
RaiseTypeError == [exception |-> "TypeError"]

\* the outcome of a call: the table after it and the value it returned
Outcome(t, value) == [table |-> t, value |-> value]

\* token_rules.detect_self_trades: the rows whose buyer is their seller (a
\* missing value equals nothing); the columns are looked up first
token_rules_detect_self_trades(t) ==
    IF ~({BuyAddress, SellAddress} \subseteq t.columns) THEN Outcome(t, Raise)
    ELSE Outcome(t, [columns |-> t.columns,
                     rows    |-> SelectSeq(t.rows, LAMBDA r :
                                    r[BuyAddress] # NA /\ r[BuyAddress] = r[SellAddress])])

\* token_rules.detect_repeated_pairs: groupby(...).size() counts the rows of
\* each (buyer, seller) key, keys with a missing value left out
token_rules_detect_repeated_pairs(t, threshold) ==
    IF ~({BuyAddress, SellAddress} \subseteq t.columns) THEN Outcome(t, Raise)
    ELSE LET size(p) == Len(SelectSeq(t.rows, LAMBDA r :
                                r[BuyAddress] = p[1] /\ r[SellAddress] = p[2]))
             keys == SelectSeq(AllPairs, LAMBDA p : size(p) > 0)
             pairs == [i \in 1..Len(keys) |->
                         [buyer |-> keys[i][1], seller |-> keys[i][2],
                          count |-> size(keys[i])]]
         IN Outcome(t, [columns |-> {BuyAddress, SellAddress, "count"},
                        rows    |-> SelectSeq(pairs, LAMBDA p : p.count > threshold)])

\* token_rules.detect_loops: the self-merge pairs a row x with every row y
\* whose seller is x's buyer (missing keys match each other), in the order of
\* the left rows; a loop is a pair where y's buyer is x's seller
token_rules_detect_loops(t) ==
    IF ~({BuyAddress, SellAddress} \subseteq t.columns) THEN Outcome(t, Raise)
    ELSE LET n == Len(t.rows)
             merged == Concat([i \in 1..n |->
                          SelectSeq([j \in 1..n |-> [x |-> t.rows[i], y |-> t.rows[j]]],
                                    LAMBDA m : m.x[BuyAddress] = m.y[SellAddress])])
         IN Outcome(t, [columns |-> {c \o "_x" : c \in t.columns}
                                        \cup {c \o "_y" : c \in t.columns},
                        rows    |-> SelectSeq(merged, LAMBDA m :
                                       /\ m.x[SellAddress] # NA
                                       /\ m.x[SellAddress] = m.y[BuyAddress])])

\* abs(a - b) of two cells; a missing operand gives a missing result
Spread(a, b) ==
    IF a = NaN \/ b = NaN THEN NaN
    ELSE IF a >= b THEN a - b ELSE b - a

\* the default price_threshold of detect_spoofing (2.0)
DefaultSpoofingThreshold == 2

\* token_rules.detect_spoofing: the column "spread" is assigned in the table
\* it was passed (line 17), then the rows above the threshold are returned
token_rules_detect_spoofing(t, price_threshold) ==
    IF ~({BuyPrice, SellPrice} \subseteq t.columns) THEN Outcome(t, Raise)
    ELSE IF \E i \in 1..Len(t.rows) : Malformed \in {t.rows[i][BuyPrice], t.rows[i][SellPrice]}
    THEN Outcome(t, RaiseTypeError)
    ELSE LET spread(r) == Spread(r[BuyPrice], r[SellPrice])
             after == [columns |-> t.columns \cup {"spread"},
                       rows    |-> [i \in 1..Len(t.rows) |->
                                      [c \in t.columns \cup {"spread"} |->
                                         IF c = "spread" THEN spread(t.rows[i])
                                         ELSE t.rows[i][c]]]]
         IN Outcome(after,
                    [columns |-> after.columns,
                     rows    |-> SelectSeq(after.rows, LAMBDA r :
                                    r.spread # NaN /\ r.spread > price_threshold)])

\* a call of one of the functions of token_rules.py on the caller's table
CalledOnTable(name, arguments, outcome) ==
    /\ call' = name
    /\ args' = arguments
    /\ table' = outcome.table
    /\ result' = outcome.value
    /\ raised' = (outcome.value \in {Raise, RaiseTypeError})
    /\ UNCHANGED <<constructed, df, suspicious_patterns, first_report, file>>

TokenRulesDetectSelfTrades ==
    \E outcome \in {token_rules_detect_self_trades(table)} :
        CalledOnTable("token_rules.detect_self_trades", <<>>, outcome)

TokenRulesDetectRepeatedPairs(threshold) ==
    \E outcome \in {token_rules_detect_repeated_pairs(table, threshold)} :
        CalledOnTable("token_rules.detect_repeated_pairs", <<threshold>>, outcome)

TokenRulesDetectLoops ==
    \E outcome \in {token_rules_detect_loops(table)} :
        CalledOnTable("token_rules.detect_loops", <<>>, outcome)

TokenRulesDetectSpoofing(price_threshold) ==
    \E outcome \in {token_rules_detect_spoofing(table, price_threshold)} :
        CalledOnTable("token_rules.detect_spoofing", <<price_threshold>>, outcome)

DetectPriceManipulation(price_deviation_threshold) ==
    Called("detect_price_manipulation", <<price_deviation_threshold>>,
           detect_price_manipulation(df, price_deviation_threshold))

DetectNewWalletPatterns ==
    Called("detect_new_wallet_patterns", <<>>, detect_new_wallet_patterns(df))

----------------------------------------------------------------------------
(* Detector calls in any order, on the detector object and on the table *)

MaxLabelTrades == 2

LabelColumns == AllColumns \cup {SellPrice}

\* a record with both prices
LabelTrade(buyer, seller, mint, price, sell_price) ==
    Trade(buyer, seller, mint, 100, price) @@ (SellPrice :> sell_price)

LabelInputs ==
    { Input(LabelTrade("A", "B", "T1", 1, 1), 1, FALSE),
      Input(LabelTrade("B", "A", "T1", 5, 1), 1, FALSE),
      Input(LabelTrade("A", "A", "T2", 1, 4), 1, FALSE),
      Input(LabelTrade(NA, "B", "T1", NaN, 1), 1, TRUE) }

\* the caller's table is built (pd.json_normalize) before any call is made
LabelAddTrade ==
    /\ call = "none"
    /\ \E inp \in LabelInputs : AddTrade(inp, {LabelColumns, TradeColumns}, MaxLabelTrades)

\* a call of one of the seven detectors of the detector object
DetectorCall ==
    \/ DetectSelfTrades
    \/ DetectRepeatedPairs(DefaultPairThreshold)
    \/ DetectCircularTrading
    \/ DetectTimingPatterns(DefaultTimeThreshold)
    \/ DetectVolumeAnomalies(DefaultVolumeThreshold)
    \/ DetectPriceManipulation(DefaultPriceThreshold)
    \/ DetectNewWalletPatterns

\* a call of one of the four detectors of the label variant
TokenRulesCall ==
    \/ TokenRulesDetectSelfTrades
    \/ TokenRulesDetectRepeatedPairs(DefaultPairThreshold)
    \/ TokenRulesDetectLoops
    \/ TokenRulesDetectSpoofing(DefaultSpoofingThreshold)

NextLabel ==
    \/ LabelAddTrade
    \/ Construct
    \/ DetectSelfTrades
    \/ DetectRepeatedPairs(DefaultPairThreshold)
    \/ DetectCircularTrading
    \/ DetectTimingPatterns(DefaultTimeThreshold)
    \/ DetectVolumeAnomalies(DefaultVolumeThreshold)
    \/ DetectPriceManipulation(DefaultPriceThreshold)
    \/ DetectNewWalletPatterns
    \/ TokenRulesDetectSelfTrades
    \/ TokenRulesDetectRepeatedPairs(DefaultPairThreshold)
    \/ TokenRulesDetectLoops
    \/ TokenRulesDetectSpoofing(DefaultSpoofingThreshold)

SpecLabel == Init /\ [][NextLabel]_vars

\* C12: a detector call, of the detector object or of the label variant,
\* leaves the caller's table and self.df as they were: same rows, same
\* columns, same values.
C12_DetectorsOnlyRead ==
    [][(DetectorCall \/ TokenRulesCall) => UNCHANGED <<table, df>>]_vars

----------------------------------------------------------------------------
(* The shape of the circles of detect_circular_trading *)

\* the circles of a finding between two distinct wallets, and of one wallet
DistinctCircles(finding) ==
    {c \in Range(finding.circles) : c.wallet_a # c.wallet_b}

SelfCircles(finding) ==
    {c \in Range(finding.circles) : c.wallet_a = c.wallet_b}

\* the unordered pairs of distinct wallets that a finding flags
FlaggedPairs(finding) ==
    {{c.wallet_a, c.wallet_b} : c \in DistinctCircles(finding)}

\* how often x occurs in the list s
Occurrences(s, x) == Len(SelectSeq(s, LAMBDA y : y = x))

\* every circle of two distinct wallets has its mirror image, with the same
\* round_trips and transactions, and each of its tx ids occurs twice in the
\* finding's transactions
Mirrored(finding) ==
    \A c \in DistinctCircles(finding) :
        /\ \E m \in DistinctCircles(finding) :
              /\ m.wallet_a = c.wallet_b
              /\ m.wallet_b = c.wallet_a
              /\ m.round_trips = c.round_trips
              /\ m.transactions = c.transactions
        /\ \A x \in Range(c.transactions) \ {NaN} :
              Occurrences(finding.transactions, x) = 2

\* a wallet with two self-trades has a circle with itself and round_trips 2
TwoSelfTrades(d, finding) ==
    \A w \in Range(Col(d.rows, "buyer")) :
        Cardinality(TradesOf(d, w, w)) = 2 =>
            \E c \in SelfCircles(finding) : c.wallet_a = w /\ c.round_trips = 2

====
